---------------------------- MODULE Spec2Model ----------------------------
(***************************************************************************)
(* Model of pinecone_mcp_0.py: three FastMCP tools (embed, search_pinecone, *)
(* insert_text) in front of an embedding provider and a vector index.       *)
(*                                                                         *)
(* Every outbound call (OpenAI(), embeddings.create, index.query,           *)
(* index.upsert) is one step of the invocation that issues it, together     *)
(* with the local code that follows it up to the next outbound call or the  *)
(* return.  Invocations of different callers interleave between steps.      *)
(***************************************************************************)
EXTENDS Integers, Sequences, FiniteSets, TLC

\* ------------------------------------------------------------------ bounds
\* Cap on the number of index.upsert calls that succeed in one behaviour.
MaxInserts == 4
\* The same cap where two callers interleave.
InterleavedInserts == 2

\* ------------------------------------------------------- program constants
\* index.query(..., top_k=3, ...)
TopK == 3

\* --------------------------------------------------------------- JSON values
\* A scalar as it arrives in a tool call, tagged with its JSON/Python type.
\* JNumStr(n) is the string holding the decimal text of n ("7"); JFloat(n, t) is
\* the number n + t/10.
JStr(s) == <<"str", s>>
JNumStr(n) == <<"numstr", n>>
JInt(n) == <<"int", n>>
JBool(b) == <<"bool", b>>
JFloat(n, t) == <<"float", n, t>>

Invalid == <<"invalid">>

\* ------------------------------------------------------------------ schema
\* class FirstNamespaceSchema(BaseModel): four required fields, extra="forbid".
FirstNamespaceSchema ==
    [author |-> "str", file_id |-> "int", industry |-> "str", original_text |-> "str"]

NAMESPACE_SCHEMAS == [first_namespace |-> FirstNamespaceSchema]

\* get_namespace_schema: the schema, or ValueError for a name that is no key.
get_namespace_schema(ns) ==
    IF ns \in DOMAIN NAMESPACE_SCHEMAS THEN NAMESPACE_SCHEMAS[ns] ELSE "ValueError"

\* Validation of one field as pydantic does it for a model that does not set
\* strict: a str field takes strings only; an int field takes an int, and also
\* a numeric string, a bool or a float without fractional part, which it
\* converts to the int.
FieldValidate(type, v) ==
    IF type = "str"
    THEN IF v[1] \in {"str", "numstr"} THEN v ELSE Invalid
    ELSE CASE v[1] = "int" -> v
           [] v[1] = "numstr" -> JInt(v[2])
           [] v[1] = "bool" -> JInt(v[2])
           [] v[1] = "float" -> IF v[3] = 0 THEN JInt(v[2]) ELSE Invalid
           [] OTHER -> Invalid

\* The record is accepted: no field missing, none extra, each field valid.
ModelAccepts(schema, raw) ==
    /\ DOMAIN raw = DOMAIN schema
    /\ \A f \in DOMAIN schema : FieldValidate(schema[f], raw[f]) # Invalid

\* The model instance built from an accepted record (data.model_dump()).
ModelValidate(schema, raw) ==
    [f \in DOMAIN schema |-> FieldValidate(schema[f], raw[f])]

\* ------------------------------------------------------------------ inputs
Texts == {"hello", "bye"}
Namespaces == {"first_namespace", "other_namespace"}

NoFilter == [f \in {} |-> JStr("")]
Filters == {NoFilter, [industry |-> JStr("tech")]}

RecordA == [author |-> JStr("A"), file_id |-> JInt(1), industry |-> JStr("tech"),
            original_text |-> JStr("hello")]
RecordB == [author |-> JStr("B"), file_id |-> JInt(2), industry |-> JStr("law"),
            original_text |-> JStr("bye")]
MissingFileId == [author |-> JStr("A"), industry |-> JStr("tech"),
                  original_text |-> JStr("hello")]
ExtraField == [author |-> JStr("A"), file_id |-> JInt(1), industry |-> JStr("tech"),
               original_text |-> JStr("hello"), note |-> JStr("x")]
AuthorAsInt == [RecordA EXCEPT !.author = JInt(5)]
FileIdAsWord == [RecordA EXCEPT !.file_id = JStr("one")]
FileIdAsNumStr == [RecordA EXCEPT !.file_id = JNumStr(1)]
FileIdAsHalf == [RecordA EXCEPT !.file_id = JFloat(1, 5)]

RawRecords == {RecordA, RecordB, MissingFileId, ExtraField, AuthorAsInt,
               FileIdAsWord, FileIdAsNumStr, FileIdAsHalf}

Callers == {"c1", "c2"}

\* ------------------------------------------------------- embedding provider
\* The vector the provider returns for a text (response.data[0].embedding).
EmbeddingOf(text) ==
    CASE text = "hello" -> <<1, 0>>
      [] text = "bye" -> <<0, 1>>
      [] OTHER -> <<1, 1>>

\* ------------------------------------------------------------ vector index
\* The index holds records [namespace, id, values, metadata]; an id is unique
\* within its namespace.
Score(q, v) == q[1] * v[1] + q[2] * v[2]

Satisfies(metadata, flt) ==
    \A k \in DOMAIN flt : k \in DOMAIN metadata /\ metadata[k] = flt[k]

Matching(idx, ns, flt) ==
    {r \in idx : r.namespace = ns /\ Satisfies(r.metadata, flt)}

Min(a, b) == IF a < b THEN a ELSE b

\* index.query: the responses the store may give, each the top_k best matching
\* records in descending score, ties in any order.
QueryResponses(idx, ns, vector, top_k, flt) ==
    LET M == Matching(idx, ns, flt)
        n == Min(top_k, Cardinality(M))
        ranked == {s \in [1..n -> M] :
                     /\ \A i, j \in 1..n : i # j => s[i] # s[j]
                     /\ \A i, j \in 1..n :
                          i < j => Score(vector, s[i].values) >= Score(vector, s[j].values)
                     /\ \A r \in M : \A i \in 1..n :
                          (\A j \in 1..n : s[j] # r)
                             => Score(vector, s[i].values) >= Score(vector, r.values)}
    IN {[i \in 1..n |-> [id |-> s[i].id,
                         score |-> Score(vector, s[i].values),
                         metadata |-> s[i].metadata]] : s \in ranked}

\* index.upsert of one vector: insert, or overwrite the record of the same id.
Upsert(idx, ns, vec) ==
    {r \in idx : ~(r.namespace = ns /\ r.id = vec.id)}
        \union {[namespace |-> ns, id |-> vec.id, values |-> vec.values,
                 metadata |-> vec.metadata]}

\* Mutant of Uuid4: the identifier is the same for every call.
Uuid4Repeats(count) == 1

\* str(uuid.uuid4()): an identifier no earlier call has produced; count is the
\* number of identifiers that reached the index so far.
Uuid4(count) == count + 1

\* -------------------------------------------------------------- tool bodies
\* search_pinecone, lines 97-105: one object per match, or the string.
KeyData(matches) ==
    [i \in 1..Len(matches) |-> [id |-> matches[i].id, score |-> matches[i].score,
                                metadata |-> matches[i].metadata]]

\* Mutant of InsertEmbedText: the author is embedded in place of the text.
InsertEmbedAuthor(d) == d.author[2]

\* insert_text, line 125: the text handed to embed.
InsertEmbedText(d) == d.original_text[2]

\* Mutant of UpsertVector: the record's file_id serves as identifier.
UpsertVectorIdFromFile(id, text_embedding, d) ==
    [id |-> d.file_id[2], values |-> text_embedding, metadata |-> d]

\* insert_text, lines 131-135: the vector handed to index.upsert.
UpsertVector(id, text_embedding, d) ==
    [id |-> id, values |-> text_embedding, metadata |-> d]

\* Mutant of SearchQuery: top_k is 5.
SearchQueryTopFive(idx, ns, vector, flt) == QueryResponses(idx, ns, vector, 5, flt)

\* search_pinecone, lines 89-95: the query sent to the index.
SearchQuery(idx, ns, vector, flt) == QueryResponses(idx, ns, vector, TopK, flt)

\* ------------------------------------------------------------------- state
VARIABLES
    index,       \* the records of the vector index
    uuidCount,   \* identifiers of uuid.uuid4() that reached the index
    trueCount,   \* insert_text invocations that returned True
    pc,          \* per caller: where its invocation stands
    tool,        \* per caller: the tool invoked
    query_text,  \* per caller: the argument of embed
    namespace,   \* per caller: the namespace argument
    filter,      \* per caller: the filter argument
    raw,         \* per caller: the record as the caller sent it to insert_text
    data,        \* per caller: the validated record insert_text works on
    ret,         \* per caller: the shape of what the tool gave back
    val,         \* per caller: the value of what the tool gave back
    calls,       \* per caller: <<call, outcome>> of the invocation, in order
    matched,     \* per caller: records that matched when index.query ran
    response,    \* per caller: what index.query answered
    added        \* per caller: records the invocation's upsert added

vars == <<index, uuidCount, trueCount, pc, tool, query_text, namespace, filter,
          raw, data, ret, val, calls, matched, response, added>>

NoData == <<>>

Init ==
    /\ index = {}
    /\ uuidCount = 0
    /\ trueCount = 0
    /\ pc = [c \in Callers |-> "idle"]
    /\ tool = [c \in Callers |-> "none"]
    /\ query_text = [c \in Callers |-> ""]
    /\ namespace = [c \in Callers |-> ""]
    /\ filter = [c \in Callers |-> NoFilter]
    /\ raw = [c \in Callers |-> NoData]
    /\ data = [c \in Callers |-> NoData]
    /\ ret = [c \in Callers |-> "pending"]
    /\ val = [c \in Callers |-> NoData]
    /\ calls = [c \in Callers |-> <<>>]
    /\ matched = [c \in Callers |-> 0]
    /\ response = [c \in Callers |-> <<>>]
    /\ added = [c \in Callers |-> {}]

\* A caller invokes a tool: the state of its previous invocation is dropped.
Begin(c, t, text, ns, flt, r, d) ==
    /\ pc[c] \in {"idle", "done"}
    /\ tool' = [tool EXCEPT ![c] = t]
    /\ query_text' = [query_text EXCEPT ![c] = text]
    /\ namespace' = [namespace EXCEPT ![c] = ns]
    /\ filter' = [filter EXCEPT ![c] = flt]
    /\ raw' = [raw EXCEPT ![c] = r]
    /\ data' = [data EXCEPT ![c] = d]
    /\ calls' = [calls EXCEPT ![c] = <<>>]
    /\ matched' = [matched EXCEPT ![c] = 0]
    /\ response' = [response EXCEPT ![c] = <<>>]
    /\ added' = [added EXCEPT ![c] = {}]
    /\ UNCHANGED <<index, uuidCount, trueCount>>

\* The invocation ends and hands (kind, value) to the caller.
Return(c, kind, value) ==
    /\ pc' = [pc EXCEPT ![c] = "done"]
    /\ ret' = [ret EXCEPT ![c] = kind]
    /\ val' = [val EXCEPT ![c] = value]

Goto(c, label) ==
    /\ pc' = [pc EXCEPT ![c] = label]
    /\ ret' = [ret EXCEPT ![c] = "pending"]
    /\ val' = [val EXCEPT ![c] = NoData]

\* The outbound call `name` of caller c ended with `outcome`.
Log(c, name, outcome) ==
    calls' = [calls EXCEPT ![c] = Append(@, <<name, outcome>>)]

\* Mutant of SearchOnNone: None is passed on, as the docstring has it.
SearchOnNoneGivesNone(c) == Return(c, "None", NoData)

\* search_pinecone, lines 86-87: embed gave None.
SearchOnNone(c) == Return(c, "diagnostic", <<"no query embedding">>)

\* Mutant of SearchReturn: key_data is returned as it is, empty or not.
SearchReturnsKeyData(c, key_data) == Return(c, "matches", key_data)

\* search_pinecone, line 105: the list of matches, or the string when it is empty.
SearchReturn(c, key_data) ==
    IF key_data # <<>>
    THEN Return(c, "matches", key_data)
    ELSE Return(c, "no_matches", "No matches found")

\* search_pinecone, lines 106-108: an exception inside the try.
SearchExcept(c) ==
    Return(c, "diagnostic", <<"An error occurred during Pinecone search">>)

\* Mutant of InsertOnNone: the None check is missing.
InsertOnNoneGoesOn(c) == Goto(c, "upsert")

\* insert_text, lines 126-127: embed gave None.
InsertOnNone(c) == Return(c, "bool", FALSE)

\* insert_text, lines 139-141: an exception inside the try.
InsertExcept(c) == Return(c, "bool", FALSE)

\* embed(query_text) is invoked as a tool.
CallEmbed(c) ==
    \E text \in Texts :
        /\ Begin(c, "embed", text, "", NoFilter, NoData, NoData)
        /\ Goto(c, "client")

\* search_pinecone(query_text, namespace, filter) is invoked; line 85 calls embed.
CallSearch(c) ==
    \E text \in Texts, ns \in Namespaces, flt \in Filters :
        /\ Begin(c, "search_pinecone", text, ns, flt, NoData, NoData)
        /\ Goto(c, "client")

\* insert_text(namespace, data) is invoked with a record the annotation
\* data: FirstNamespaceSchema accepts; line 125 calls embed(data.original_text).
\* The namespace is not looked up in NAMESPACE_SCHEMAS.
CallInsert(c) ==
    \E ns \in Namespaces, r \in RawRecords :
        /\ ModelAccepts(FirstNamespaceSchema, r)
        /\ LET d == ModelValidate(FirstNamespaceSchema, r)
           IN Begin(c, "insert_text", InsertEmbedText(d), ns, NoFilter, r, d)
        /\ Goto(c, "client")

\* insert_text(namespace, data) is invoked with a record the annotation rejects:
\* the body does not run and the caller gets the validation error.
CallInsertRejected(c) ==
    \E ns \in Namespaces, r \in RawRecords :
        /\ ~ModelAccepts(FirstNamespaceSchema, r)
        /\ Begin(c, "insert_text", "", ns, NoFilter, r, NoData)
        /\ Return(c, "raised", "ValidationError")

\* embed, line 42: client = OpenAI() succeeds.
OpenAIClientOk(c) ==
    /\ pc[c] = "client"
    /\ Log(c, "OpenAI", "ok")
    /\ Goto(c, "create")
    /\ UNCHANGED <<index, uuidCount, trueCount, tool, query_text, namespace,
                   filter, raw, data, matched, response, added>>

\* embed, line 42: client = OpenAI() raises (no API key); the statement stands
\* before embed's try, so the exception leaves embed.  search_pinecone and
\* insert_text call embed inside their own try and catch it.
OpenAIClientRaises(c) ==
    /\ pc[c] = "client"
    /\ Log(c, "OpenAI", "raised")
    /\ CASE tool[c] = "embed" -> Return(c, "raised", "OpenAIError")
         [] tool[c] = "search_pinecone" -> SearchExcept(c)
         [] tool[c] = "insert_text" -> InsertExcept(c)
    /\ UNCHANGED <<index, uuidCount, trueCount, tool, query_text, namespace,
                   filter, raw, data, matched, response, added>>

\* embed, lines 57-63: embeddings.create answers; embed returns the vector.
\* search_pinecone and insert_text go on to their index call.
EmbeddingsCreateOk(c) ==
    /\ pc[c] = "create"
    /\ Log(c, "embeddings.create", "ok")
    /\ CASE tool[c] = "embed" -> Return(c, "vector", EmbeddingOf(query_text[c]))
         [] tool[c] = "search_pinecone" -> Goto(c, "query")
         [] tool[c] = "insert_text" -> Goto(c, "upsert")
    /\ UNCHANGED <<index, uuidCount, trueCount, tool, query_text, namespace,
                   filter, raw, data, matched, response, added>>

\* embed, lines 64-66: embeddings.create fails; embed returns None.  Lines 86-87
\* and 126-127: the callers of embed give up without an index call.
EmbeddingsCreateFails(c) ==
    /\ pc[c] = "create"
    /\ Log(c, "embeddings.create", "raised")
    /\ CASE tool[c] = "embed" -> Return(c, "None", NoData)
         [] tool[c] = "search_pinecone" -> SearchOnNone(c)
         [] tool[c] = "insert_text" -> InsertOnNone(c)
    /\ UNCHANGED <<index, uuidCount, trueCount, tool, query_text, namespace,
                   filter, raw, data, matched, response, added>>

\* search_pinecone, lines 89-105: index.query answers.
IndexQueryOk(c) ==
    /\ pc[c] = "query"
    /\ Log(c, "index.query", "ok")
    /\ matched' = [matched EXCEPT
                     ![c] = Cardinality(Matching(index, namespace[c], filter[c]))]
    /\ \E results \in SearchQuery(index, namespace[c],
                                  EmbeddingOf(query_text[c]), filter[c]) :
          /\ response' = [response EXCEPT ![c] = results]
          /\ SearchReturn(c, KeyData(results))
    /\ UNCHANGED <<index, uuidCount, trueCount, tool, query_text, namespace,
                   filter, raw, data, added>>

\* search_pinecone, lines 106-108: index.query raises.
IndexQueryRaises(c) ==
    /\ pc[c] = "query"
    /\ Log(c, "index.query", "raised")
    /\ SearchExcept(c)
    /\ UNCHANGED <<index, uuidCount, trueCount, tool, query_text, namespace,
                   filter, raw, data, matched, response, added>>

\* insert_text, lines 130-138: index.upsert stores the vector.
IndexUpsertOk(c) ==
    /\ pc[c] = "upsert"
    /\ uuidCount < MaxInserts
    /\ uuidCount' = uuidCount + 1
    /\ Log(c, "index.upsert", "ok")
    /\ index' = Upsert(index, namespace[c],
                       UpsertVector(Uuid4(uuidCount),
                                    EmbeddingOf(query_text[c]), data[c]))
    /\ added' = [added EXCEPT ![c] = index' \ index]
    /\ trueCount' = trueCount + 1
    /\ Return(c, "bool", TRUE)
    /\ UNCHANGED <<tool, query_text, namespace, filter, raw, data, matched,
                   response>>

\* insert_text, lines 139-141: index.upsert raises and stores nothing; the
\* identifier drawn for it is lost with the call.
IndexUpsertRaises(c) ==
    /\ pc[c] = "upsert"
    /\ Log(c, "index.upsert", "raised")
    /\ InsertExcept(c)
    /\ UNCHANGED <<index, uuidCount, trueCount, tool, query_text, namespace,
                   filter, raw, data, matched, response, added>>

\* One step of the invocation of caller c.
Step(c) ==
    \/ CallEmbed(c)
    \/ CallSearch(c)
    \/ CallInsert(c)
    \/ CallInsertRejected(c)
    \/ OpenAIClientOk(c)
    \/ OpenAIClientRaises(c)
    \/ EmbeddingsCreateOk(c)
    \/ EmbeddingsCreateFails(c)
    \/ IndexQueryOk(c)
    \/ IndexQueryRaises(c)
    \/ IndexUpsertOk(c)
    \/ IndexUpsertRaises(c)

\* The tools are synchronous: one invocation at a time.
Next == \E c \in {"c1"} : Step(c)

Spec == Init /\ [][Next]_vars

\* Invocations of two callers against the same index, interleaved between
\* their outbound calls; to keep the state space small they use one namespace
\* and fewer inserts.
InterleavedInputs ==
    /\ uuidCount <= InterleavedInserts
    /\ \A c \in Callers : namespace[c] # "other_namespace"

NextInterleaved ==
    \E c \in Callers :
        \/ CallEmbed(c) /\ InterleavedInputs'
        \/ CallSearch(c) /\ InterleavedInputs'
        \/ CallInsert(c) /\ InterleavedInputs'
        \/ CallInsertRejected(c) /\ InterleavedInputs'
        \/ OpenAIClientOk(c)
        \/ OpenAIClientRaises(c)
        \/ EmbeddingsCreateOk(c)
        \/ EmbeddingsCreateFails(c)
        \/ IndexQueryOk(c)
        \/ IndexQueryRaises(c)
        \/ IndexUpsertOk(c) /\ InterleavedInputs'
        \/ IndexUpsertRaises(c)

SpecInterleaved == Init /\ [][NextInterleaved]_vars

\* ================================================================== claims
\* The outbound call `name` was issued by the invocation of caller c.
Called(c, name) == \E i \in 1..Len(calls[c]) : calls[c][i][1] = name

\* ... and ended with `outcome`.
Ended(c, name, outcome) ==
    \E i \in 1..Len(calls[c]) : calls[c][i] = <<name, outcome>>

\* embed gave its caller nothing: embeddings.create failed, or OpenAI() raised.
EmbedFailed(c) ==
    Ended(c, "embeddings.create", "raised") \/ Ended(c, "OpenAI", "raised")

\* The record has exactly the fields of the schema, each of the declared
\* scalar type.
Conforms(schema, r) ==
    /\ DOMAIN r = DOMAIN schema
    /\ \A f \in DOMAIN schema :
          IF schema[f] = "str" THEN r[f][1] \in {"str", "numstr"}
          ELSE r[f][1] = "int"

\* C1: for every namespace that is no key of NAMESPACE_SCHEMAS, insert_text on a
\* record of the schema returns False and issues neither the embedding call nor
\* the upsert, so the index gets no record.
C1_UnknownNamespaceFails ==
    \A c \in Callers :
        (/\ tool[c] = "insert_text"
         /\ pc[c] = "done"
         /\ Conforms(FirstNamespaceSchema, raw[c])
         /\ namespace[c] \notin DOMAIN NAMESPACE_SCHEMAS)
        => /\ ret[c] = "bool"
           /\ val[c] = FALSE
           /\ ~Called(c, "embeddings.create")
           /\ ~Called(c, "index.upsert")
           /\ added[c] = {}

\* C2: whatever the outbound calls do, embed ends by returning a vector or
\* None, search_pinecone a list or the no-matches string, insert_text (on a
\* record of the schema) a boolean; none ends by raising to the caller.
C2_NoExceptionEscapes ==
    \A c \in Callers :
        pc[c] = "done" =>
            /\ tool[c] = "embed" => ret[c] \in {"vector", "None"}
            /\ tool[c] = "search_pinecone"
                  => ret[c] \in {"matches", "diagnostic", "no_matches"}
            /\ (tool[c] = "insert_text" /\ Conforms(FirstNamespaceSchema, raw[c]))
                  => ret[c] = "bool"

\* C3: in insert_text the embedding call comes before the upsert, and when
\* embed returns None insert_text has returned False, never issued the
\* upsert and added no record.
C3_EmbedBeforeUpsert ==
    \A c \in Callers :
        tool[c] = "insert_text" =>
            /\ \A i \in 1..Len(calls[c]) :
                  calls[c][i][1] = "index.upsert"
                     => \E j \in 1..(i - 1) : calls[c][j] = <<"embeddings.create", "ok">>
            /\ Ended(c, "embeddings.create", "raised")
                  => /\ pc[c] = "done"
                     /\ ret[c] = "bool"
                     /\ val[c] = FALSE
                     /\ ~Called(c, "index.upsert")
                     /\ added[c] = {}

C3_Witness ==
    \E c \in Callers :
        /\ tool[c] = "insert_text"
        /\ Ended(c, "embeddings.create", "raised")
        /\ pc[c] = "done"
        /\ index # {}

\* C4: a record with a required field missing, a field outside the schema, or
\* a field of the wrong scalar type fails validation, and neither the
\* embedding call nor the upsert is made for it.
C4_NonConformingRejected ==
    \A c \in Callers :
        (/\ tool[c] = "insert_text"
         /\ ~Conforms(FirstNamespaceSchema, raw[c]))
        => /\ pc[c] = "done"
           /\ ret[c] = "raised"
           /\ ~Called(c, "embeddings.create")
           /\ ~Called(c, "index.upsert")

Returned(c) == IF ret[c] = "matches" THEN val[c] ELSE <<>>

\* C7: a search whose query succeeds returns min(3, n) match objects, n the
\* number of records of the namespace that satisfy the filter: one object (id,
\* score, metadata) per match of the store, in the store's order.
C7_TopThree ==
    \A c \in Callers :
        (tool[c] = "search_pinecone" /\ pc[c] = "done"
            /\ Ended(c, "index.query", "ok")) =>
            /\ Len(Returned(c)) = Min(3, matched[c])
            /\ Len(Returned(c)) = Len(response[c])
            /\ \A i \in 1..Len(response[c]) :
                  /\ Returned(c)[i].id = response[c][i].id
                  /\ Returned(c)[i].score = response[c][i].score
                  /\ Returned(c)[i].metadata = response[c][i].metadata
                  /\ Satisfies(Returned(c)[i].metadata, filter[c])

C7_Witness ==
    \E c \in Callers :
        /\ tool[c] = "search_pinecone"
        /\ pc[c] = "done"
        /\ matched[c] > 3
        /\ Len(Returned(c)) = 3

\* C8: every insert that returns True stores under an identifier no stored
\* record has, so the index holds as many records as inserts returned True,
\* and identical inserts leave distinct records.
C8_InsertNeverOverwrites ==
    /\ Cardinality(index) = trueCount
    /\ \A r1, r2 \in index :
          (r1.namespace = r2.namespace /\ r1.id = r2.id) => r1 = r2

C8_Witness ==
    \E r1, r2 \in index :
        /\ r1.id # r2.id
        /\ r1.namespace = r2.namespace
        /\ r1.values = r2.values
        /\ r1.metadata = r2.metadata

\* C9: a stored record is never changed or removed; a step of embed or
\* search_pinecone leaves the index as it is, and a step that changes it is
\* the upsert of an insert_text, which adds one record.
C9_IndexOnlyGrows ==
    [][/\ index \subseteq index'
       /\ index' # index
             => /\ Cardinality(index') = Cardinality(index) + 1
                /\ \E c \in Callers :
                      /\ tool[c] = "insert_text"
                      /\ pc[c] = "upsert"
                      /\ pc'[c] = "done"]_vars

C9_Witness ==
    /\ tool["c1"] = "search_pinecone"
    /\ pc["c1"] = "done"
    /\ ret["c1"] = "matches"
    /\ Len(val["c1"]) < Cardinality(index)
    /\ tool["c2"] = "insert_text"
    /\ pc["c2"] = "done"
    /\ ret["c2"] = "bool"
    /\ val["c2"] = TRUE

\* C10: insert_text returns True exactly when the embedding call and then the
\* upsert both ended without error; then it added one record, in the caller's
\* namespace, with the embedding of data.original_text as vector and the whole
\* validated record as metadata.  When it returns False it added none.
C10_FaithfulBoolean ==
    \A c \in Callers :
        (tool[c] = "insert_text" /\ pc[c] = "done" /\ ret[c] = "bool") =>
            /\ val[c] = TRUE
                  <=> /\ Ended(c, "embeddings.create", "ok")
                      /\ Ended(c, "index.upsert", "ok")
            /\ val[c] = TRUE
                  => /\ Cardinality(added[c]) = 1
                     /\ added[c] \subseteq index
                     /\ \A r \in added[c] :
                           /\ r.namespace = namespace[c]
                           /\ r.values = EmbeddingOf(data[c].original_text[2])
                           /\ r.metadata = data[c]
                           /\ DOMAIN r.metadata = DOMAIN FirstNamespaceSchema
            /\ val[c] = FALSE => added[c] = {}

C10_Witness ==
    \E c \in Callers :
        /\ tool[c] = "insert_text"
        /\ pc[c] = "done"
        /\ ret[c] = "bool"
        /\ val[c] = TRUE
        /\ raw[c] = RecordB
        /\ Cardinality(index) >= 2

=============================================================================
